---------------------------- MODULE Spec2Model ----------------------------
(***************************************************************************)
(* A model of extract_primary_keys.py: selection of the archive's members  *)
(* by name (extract_yang_files), extraction of list/key declarations from  *)
(* one member's text by the regular expression list_pattern                *)
(* (extract_keys_using_regex), and the run that merges the per-member      *)
(* mappings and writes the result (extract_primary_keys_from_zip, main).   *)
(*                                                                         *)
(* Text is a sequence of code points, so that the regular expressions are  *)
(* modelled character by character.                                        *)
(***************************************************************************)
EXTENDS Integers, Sequences, FiniteSets, TLC

VARIABLES
    \* ---- extract_keys_using_regex on one text ----
    content,            \* the text read from the member (line 55)
    scan_pos,           \* where re.finditer resumes its scan (1-based)
    tables_and_keys,    \* the dict built by the loop of lines 61-70
    match_log,          \* history: the matches finditer has yielded, in order
    ext_pc,             \* "idle" | "scan" | "done"
    \* ---- the run: main and extract_primary_keys_from_zip ----
    archive_ok,         \* zipfile.ZipFile(zip_path) can open the archive
    namelist,           \* the archive's members, in listing order
    output_arg,         \* args.output is given and not empty
    pc,                 \* the run's position in the code
    temp_dir,           \* "none" | "exists" | "removed"
    extracted,          \* the files under temp_dir: path in it -> content
    outside,            \* the files outside temp_dir: absolute path -> content
    file_i,             \* loop index of line 33
    yang_files,         \* the paths of the selected members, line 40
    parse_i,            \* loop index of line 105
    all_tables_and_keys,\* the accumulator, line 85
    decl_log,           \* history: declarations merged so far, in order
    failure,            \* history: the step that failed, "none" if none did
    exit_code,          \* -1 while running, then the exit status (line 148)
    stdout,             \* what print() wrote (line 139)
    out_file            \* what was written to args.output (lines 135-136)

ext_vars == <<content, scan_pos, tables_and_keys, match_log, ext_pc>>
run_vars == <<archive_ok, namelist, output_arg, pc, temp_dir, extracted,
              outside, file_i, yang_files, parse_i, all_tables_and_keys,
              decl_log, failure, exit_code, stdout, out_file>>
vars == <<ext_vars, run_vars>>

\* ------------------------------------------------------------------------
\* Bounds of the model
\* ------------------------------------------------------------------------
MaxDecls == 2           \* declaration pieces concatenated into one text
MaxMembers == 2         \* members of the archive in a run
MaxListed == 1          \* members of the archive when the names vary

\* ------------------------------------------------------------------------
\* Characters and character classes
\* ------------------------------------------------------------------------
Min(S) == CHOOSE x \in S : \A y \in S : x <= y

\* A character is its code point, a number of 0..1114111, and a text (the
\* str that f.read() returns, a member name) is a sequence of code points.
\* Ord gives the code point of a character written as a string, Str the
\* text of a tuple of such characters.
AsciiLow ==
    <<" ","!","\"","#","$","%","&","'","(",")","*","+",",","-",".",
      "/","0","1","2","3","4","5","6","7","8","9",":",";","<","=",
      ">","?","@","A","B","C","D","E","F","G","H","I","J","K","L",
      "M","N","O","P","Q","R","S","T","U","V","W","X","Y","Z","[",
      "\\","]","^","_">>
AsciiHigh ==
    <<"a","b","c","d","e","f","g","h","i","j","k","l","m","n","o",
      "p","q","r","s","t","u","v","w","x","y","z","{","|","}","~">>
Ord(c) ==
    CASE c = "\t" -> 9
      [] c = "\n" -> 10
      [] c = "\f" -> 12
      [] c = "\r" -> 13
      [] \E i \in 1..Len(AsciiLow) : AsciiLow[i] = c ->
             31 + CHOOSE i \in 1..Len(AsciiLow) : AsciiLow[i] = c
      [] OTHER -> 96 + CHOOSE i \in 1..Len(AsciiHigh) : AsciiHigh[i] = c
Str(t) == [i \in 1..Len(t) |-> Ord(t[i])]

LF == 10            \* line feed
CR == 13            \* carriage return
SP == 32            \* space
DQuote == 34        \* "
Hyphen == 45        \* -
Dot == 46           \* .
Slash == 47         \* /
Underscore == 95    \* _
OpenBrace == 123    \* {
CloseBrace == 125   \* }

\* Characters outside ASCII that the input texts use: the vertical tab, the
\* no-break space, e with acute accent and the Greek letter alpha.
VT == 11
NBSP == 160
EAcute == 233
Alpha == 945

\* The patterns are str patterns compiled without re.ASCII, and the text
\* is a str: \s, \w, str.strip() and str.split() follow Unicode.
\* Whitespace (str.isspace()): U+0009..U+000D, U+001C..U+0020, U+0085,
\* U+00A0, U+1680, U+2000..U+200A, U+2028, U+2029, U+202F, U+205F, U+3000.
SpaceChars ==
    (9..13) \cup (28..32) \cup {133, 160, 5760} \cup (8192..8202)
        \cup {8232, 8233, 8239, 8287, 12288}

\* The alphanumeric characters (str.isalnum()) from U+0080 on, as ranges
\* <<first, last>> of code points, by the Unicode database 14.0.0 of the
\* interpreter.
WordRanges ==
    {<<170,170>>, <<178,179>>, <<181,181>>, <<185,186>>, <<188,190>>,
     <<192,214>>, <<216,246>>, <<248,705>>, <<710,721>>, <<736,740>>,
     <<748,748>>, <<750,750>>, <<880,884>>, <<886,887>>, <<890,893>>,
     <<895,895>>, <<902,902>>, <<904,906>>, <<908,908>>, <<910,929>>,
     <<931,1013>>, <<1015,1153>>, <<1162,1327>>, <<1329,1366>>,
     <<1369,1369>>, <<1376,1416>>, <<1488,1514>>, <<1519,1522>>,
     <<1568,1610>>, <<1632,1641>>, <<1646,1647>>, <<1649,1747>>,
     <<1749,1749>>, <<1765,1766>>, <<1774,1788>>, <<1791,1791>>,
     <<1808,1808>>, <<1810,1839>>, <<1869,1957>>, <<1969,1969>>,
     <<1984,2026>>, <<2036,2037>>, <<2042,2042>>, <<2048,2069>>,
     <<2074,2074>>, <<2084,2084>>, <<2088,2088>>, <<2112,2136>>,
     <<2144,2154>>, <<2160,2183>>, <<2185,2190>>, <<2208,2249>>,
     <<2308,2361>>, <<2365,2365>>, <<2384,2384>>, <<2392,2401>>,
     <<2406,2415>>, <<2417,2432>>, <<2437,2444>>, <<2447,2448>>,
     <<2451,2472>>, <<2474,2480>>, <<2482,2482>>, <<2486,2489>>,
     <<2493,2493>>, <<2510,2510>>, <<2524,2525>>, <<2527,2529>>,
     <<2534,2545>>, <<2548,2553>>, <<2556,2556>>, <<2565,2570>>,
     <<2575,2576>>, <<2579,2600>>, <<2602,2608>>, <<2610,2611>>,
     <<2613,2614>>, <<2616,2617>>, <<2649,2652>>, <<2654,2654>>,
     <<2662,2671>>, <<2674,2676>>, <<2693,2701>>, <<2703,2705>>,
     <<2707,2728>>, <<2730,2736>>, <<2738,2739>>, <<2741,2745>>,
     <<2749,2749>>, <<2768,2768>>, <<2784,2785>>, <<2790,2799>>,
     <<2809,2809>>, <<2821,2828>>, <<2831,2832>>, <<2835,2856>>,
     <<2858,2864>>, <<2866,2867>>, <<2869,2873>>, <<2877,2877>>,
     <<2908,2909>>, <<2911,2913>>, <<2918,2927>>, <<2929,2935>>,
     <<2947,2947>>, <<2949,2954>>, <<2958,2960>>, <<2962,2965>>,
     <<2969,2970>>, <<2972,2972>>, <<2974,2975>>, <<2979,2980>>,
     <<2984,2986>>, <<2990,3001>>, <<3024,3024>>, <<3046,3058>>,
     <<3077,3084>>, <<3086,3088>>, <<3090,3112>>, <<3114,3129>>,
     <<3133,3133>>, <<3160,3162>>, <<3165,3165>>, <<3168,3169>>,
     <<3174,3183>>, <<3192,3198>>, <<3200,3200>>, <<3205,3212>>,
     <<3214,3216>>, <<3218,3240>>, <<3242,3251>>, <<3253,3257>>,
     <<3261,3261>>, <<3293,3294>>, <<3296,3297>>, <<3302,3311>>,
     <<3313,3314>>, <<3332,3340>>, <<3342,3344>>, <<3346,3386>>,
     <<3389,3389>>, <<3406,3406>>, <<3412,3414>>, <<3416,3425>>,
     <<3430,3448>>, <<3450,3455>>, <<3461,3478>>, <<3482,3505>>,
     <<3507,3515>>, <<3517,3517>>, <<3520,3526>>, <<3558,3567>>,
     <<3585,3632>>, <<3634,3635>>, <<3648,3654>>, <<3664,3673>>,
     <<3713,3714>>, <<3716,3716>>, <<3718,3722>>, <<3724,3747>>,
     <<3749,3749>>, <<3751,3760>>, <<3762,3763>>, <<3773,3773>>,
     <<3776,3780>>, <<3782,3782>>, <<3792,3801>>, <<3804,3807>>,
     <<3840,3840>>, <<3872,3891>>, <<3904,3911>>, <<3913,3948>>,
     <<3976,3980>>, <<4096,4138>>, <<4159,4169>>, <<4176,4181>>,
     <<4186,4189>>, <<4193,4193>>, <<4197,4198>>, <<4206,4208>>,
     <<4213,4225>>, <<4238,4238>>, <<4240,4249>>, <<4256,4293>>,
     <<4295,4295>>, <<4301,4301>>, <<4304,4346>>, <<4348,4680>>,
     <<4682,4685>>, <<4688,4694>>, <<4696,4696>>, <<4698,4701>>,
     <<4704,4744>>, <<4746,4749>>, <<4752,4784>>, <<4786,4789>>,
     <<4792,4798>>, <<4800,4800>>, <<4802,4805>>, <<4808,4822>>,
     <<4824,4880>>, <<4882,4885>>, <<4888,4954>>, <<4969,4988>>,
     <<4992,5007>>, <<5024,5109>>, <<5112,5117>>, <<5121,5740>>,
     <<5743,5759>>, <<5761,5786>>, <<5792,5866>>, <<5870,5880>>,
     <<5888,5905>>, <<5919,5937>>, <<5952,5969>>, <<5984,5996>>,
     <<5998,6000>>, <<6016,6067>>, <<6103,6103>>, <<6108,6108>>,
     <<6112,6121>>, <<6128,6137>>, <<6160,6169>>, <<6176,6264>>,
     <<6272,6276>>, <<6279,6312>>, <<6314,6314>>, <<6320,6389>>,
     <<6400,6430>>, <<6470,6509>>, <<6512,6516>>, <<6528,6571>>,
     <<6576,6601>>, <<6608,6618>>, <<6656,6678>>, <<6688,6740>>,
     <<6784,6793>>, <<6800,6809>>, <<6823,6823>>, <<6917,6963>>,
     <<6981,6988>>, <<6992,7001>>, <<7043,7072>>, <<7086,7141>>,
     <<7168,7203>>, <<7232,7241>>, <<7245,7293>>, <<7296,7304>>,
     <<7312,7354>>, <<7357,7359>>, <<7401,7404>>, <<7406,7411>>,
     <<7413,7414>>, <<7418,7418>>, <<7424,7615>>, <<7680,7957>>,
     <<7960,7965>>, <<7968,8005>>, <<8008,8013>>, <<8016,8023>>,
     <<8025,8025>>, <<8027,8027>>, <<8029,8029>>, <<8031,8061>>,
     <<8064,8116>>, <<8118,8124>>, <<8126,8126>>, <<8130,8132>>,
     <<8134,8140>>, <<8144,8147>>, <<8150,8155>>, <<8160,8172>>,
     <<8178,8180>>, <<8182,8188>>, <<8304,8305>>, <<8308,8313>>,
     <<8319,8329>>, <<8336,8348>>, <<8450,8450>>, <<8455,8455>>,
     <<8458,8467>>, <<8469,8469>>, <<8473,8477>>, <<8484,8484>>,
     <<8486,8486>>, <<8488,8488>>, <<8490,8493>>, <<8495,8505>>,
     <<8508,8511>>, <<8517,8521>>, <<8526,8526>>, <<8528,8585>>,
     <<9312,9371>>, <<9450,9471>>, <<10102,10131>>, <<11264,11492>>,
     <<11499,11502>>, <<11506,11507>>, <<11517,11517>>, <<11520,11557>>,
     <<11559,11559>>, <<11565,11565>>, <<11568,11623>>, <<11631,11631>>,
     <<11648,11670>>, <<11680,11686>>, <<11688,11694>>, <<11696,11702>>,
     <<11704,11710>>, <<11712,11718>>, <<11720,11726>>, <<11728,11734>>,
     <<11736,11742>>, <<11823,11823>>, <<12293,12295>>, <<12321,12329>>,
     <<12337,12341>>, <<12344,12348>>, <<12353,12438>>, <<12445,12447>>,
     <<12449,12538>>, <<12540,12543>>, <<12549,12591>>, <<12593,12686>>,
     <<12690,12693>>, <<12704,12735>>, <<12784,12799>>, <<12832,12841>>,
     <<12872,12879>>, <<12881,12895>>, <<12928,12937>>, <<12977,12991>>,
     <<13312,19903>>, <<19968,42124>>, <<42192,42237>>, <<42240,42508>>,
     <<42512,42539>>, <<42560,42606>>, <<42623,42653>>, <<42656,42735>>,
     <<42775,42783>>, <<42786,42888>>, <<42891,42954>>, <<42960,42961>>,
     <<42963,42963>>, <<42965,42969>>, <<42994,43009>>, <<43011,43013>>,
     <<43015,43018>>, <<43020,43042>>, <<43056,43061>>, <<43072,43123>>,
     <<43138,43187>>, <<43216,43225>>, <<43250,43255>>, <<43259,43259>>,
     <<43261,43262>>, <<43264,43301>>, <<43312,43334>>, <<43360,43388>>,
     <<43396,43442>>, <<43471,43481>>, <<43488,43492>>, <<43494,43518>>,
     <<43520,43560>>, <<43584,43586>>, <<43588,43595>>, <<43600,43609>>,
     <<43616,43638>>, <<43642,43642>>, <<43646,43695>>, <<43697,43697>>,
     <<43701,43702>>, <<43705,43709>>, <<43712,43712>>, <<43714,43714>>,
     <<43739,43741>>, <<43744,43754>>, <<43762,43764>>, <<43777,43782>>,
     <<43785,43790>>, <<43793,43798>>, <<43808,43814>>, <<43816,43822>>,
     <<43824,43866>>, <<43868,43881>>, <<43888,44002>>, <<44016,44025>>,
     <<44032,55203>>, <<55216,55238>>, <<55243,55291>>, <<63744,64109>>,
     <<64112,64217>>, <<64256,64262>>, <<64275,64279>>, <<64285,64285>>,
     <<64287,64296>>, <<64298,64310>>, <<64312,64316>>, <<64318,64318>>,
     <<64320,64321>>, <<64323,64324>>, <<64326,64433>>, <<64467,64829>>,
     <<64848,64911>>, <<64914,64967>>, <<65008,65019>>, <<65136,65140>>,
     <<65142,65276>>, <<65296,65305>>, <<65313,65338>>, <<65345,65370>>,
     <<65382,65470>>, <<65474,65479>>, <<65482,65487>>, <<65490,65495>>,
     <<65498,65500>>, <<65536,65547>>, <<65549,65574>>, <<65576,65594>>,
     <<65596,65597>>, <<65599,65613>>, <<65616,65629>>, <<65664,65786>>,
     <<65799,65843>>, <<65856,65912>>, <<65930,65931>>, <<66176,66204>>,
     <<66208,66256>>, <<66273,66299>>, <<66304,66339>>, <<66349,66378>>,
     <<66384,66421>>, <<66432,66461>>, <<66464,66499>>, <<66504,66511>>,
     <<66513,66517>>, <<66560,66717>>, <<66720,66729>>, <<66736,66771>>,
     <<66776,66811>>, <<66816,66855>>, <<66864,66915>>, <<66928,66938>>,
     <<66940,66954>>, <<66956,66962>>, <<66964,66965>>, <<66967,66977>>,
     <<66979,66993>>, <<66995,67001>>, <<67003,67004>>, <<67072,67382>>,
     <<67392,67413>>, <<67424,67431>>, <<67456,67461>>, <<67463,67504>>,
     <<67506,67514>>, <<67584,67589>>, <<67592,67592>>, <<67594,67637>>,
     <<67639,67640>>, <<67644,67644>>, <<67647,67669>>, <<67672,67702>>,
     <<67705,67742>>, <<67751,67759>>, <<67808,67826>>, <<67828,67829>>,
     <<67835,67867>>, <<67872,67897>>, <<67968,68023>>, <<68028,68047>>,
     <<68050,68096>>, <<68112,68115>>, <<68117,68119>>, <<68121,68149>>,
     <<68160,68168>>, <<68192,68222>>, <<68224,68255>>, <<68288,68295>>,
     <<68297,68324>>, <<68331,68335>>, <<68352,68405>>, <<68416,68437>>,
     <<68440,68466>>, <<68472,68497>>, <<68521,68527>>, <<68608,68680>>,
     <<68736,68786>>, <<68800,68850>>, <<68858,68899>>, <<68912,68921>>,
     <<69216,69246>>, <<69248,69289>>, <<69296,69297>>, <<69376,69415>>,
     <<69424,69445>>, <<69457,69460>>, <<69488,69505>>, <<69552,69579>>,
     <<69600,69622>>, <<69635,69687>>, <<69714,69743>>, <<69745,69746>>,
     <<69749,69749>>, <<69763,69807>>, <<69840,69864>>, <<69872,69881>>,
     <<69891,69926>>, <<69942,69951>>, <<69956,69956>>, <<69959,69959>>,
     <<69968,70002>>, <<70006,70006>>, <<70019,70066>>, <<70081,70084>>,
     <<70096,70106>>, <<70108,70108>>, <<70113,70132>>, <<70144,70161>>,
     <<70163,70187>>, <<70272,70278>>, <<70280,70280>>, <<70282,70285>>,
     <<70287,70301>>, <<70303,70312>>, <<70320,70366>>, <<70384,70393>>,
     <<70405,70412>>, <<70415,70416>>, <<70419,70440>>, <<70442,70448>>,
     <<70450,70451>>, <<70453,70457>>, <<70461,70461>>, <<70480,70480>>,
     <<70493,70497>>, <<70656,70708>>, <<70727,70730>>, <<70736,70745>>,
     <<70751,70753>>, <<70784,70831>>, <<70852,70853>>, <<70855,70855>>,
     <<70864,70873>>, <<71040,71086>>, <<71128,71131>>, <<71168,71215>>,
     <<71236,71236>>, <<71248,71257>>, <<71296,71338>>, <<71352,71352>>,
     <<71360,71369>>, <<71424,71450>>, <<71472,71483>>, <<71488,71494>>,
     <<71680,71723>>, <<71840,71922>>, <<71935,71942>>, <<71945,71945>>,
     <<71948,71955>>, <<71957,71958>>, <<71960,71983>>, <<71999,71999>>,
     <<72001,72001>>, <<72016,72025>>, <<72096,72103>>, <<72106,72144>>,
     <<72161,72161>>, <<72163,72163>>, <<72192,72192>>, <<72203,72242>>,
     <<72250,72250>>, <<72272,72272>>, <<72284,72329>>, <<72349,72349>>,
     <<72368,72440>>, <<72704,72712>>, <<72714,72750>>, <<72768,72768>>,
     <<72784,72812>>, <<72818,72847>>, <<72960,72966>>, <<72968,72969>>,
     <<72971,73008>>, <<73030,73030>>, <<73040,73049>>, <<73056,73061>>,
     <<73063,73064>>, <<73066,73097>>, <<73112,73112>>, <<73120,73129>>,
     <<73440,73458>>, <<73648,73648>>, <<73664,73684>>, <<73728,74649>>,
     <<74752,74862>>, <<74880,75075>>, <<77712,77808>>, <<77824,78894>>,
     <<82944,83526>>, <<92160,92728>>, <<92736,92766>>, <<92768,92777>>,
     <<92784,92862>>, <<92864,92873>>, <<92880,92909>>, <<92928,92975>>,
     <<92992,92995>>, <<93008,93017>>, <<93019,93025>>, <<93027,93047>>,
     <<93053,93071>>, <<93760,93846>>, <<93952,94026>>, <<94032,94032>>,
     <<94099,94111>>, <<94176,94177>>, <<94179,94179>>, <<94208,100343>>,
     <<100352,101589>>, <<101632,101640>>, <<110576,110579>>,
     <<110581,110587>>, <<110589,110590>>, <<110592,110882>>,
     <<110928,110930>>, <<110948,110951>>, <<110960,111355>>,
     <<113664,113770>>, <<113776,113788>>, <<113792,113800>>,
     <<113808,113817>>, <<119520,119539>>, <<119648,119672>>,
     <<119808,119892>>, <<119894,119964>>, <<119966,119967>>,
     <<119970,119970>>, <<119973,119974>>, <<119977,119980>>,
     <<119982,119993>>, <<119995,119995>>, <<119997,120003>>,
     <<120005,120069>>, <<120071,120074>>, <<120077,120084>>,
     <<120086,120092>>, <<120094,120121>>, <<120123,120126>>,
     <<120128,120132>>, <<120134,120134>>, <<120138,120144>>,
     <<120146,120485>>, <<120488,120512>>, <<120514,120538>>,
     <<120540,120570>>, <<120572,120596>>, <<120598,120628>>,
     <<120630,120654>>, <<120656,120686>>, <<120688,120712>>,
     <<120714,120744>>, <<120746,120770>>, <<120772,120779>>,
     <<120782,120831>>, <<122624,122654>>, <<123136,123180>>,
     <<123191,123197>>, <<123200,123209>>, <<123214,123214>>,
     <<123536,123565>>, <<123584,123627>>, <<123632,123641>>,
     <<124896,124902>>, <<124904,124907>>, <<124909,124910>>,
     <<124912,124926>>, <<124928,125124>>, <<125127,125135>>,
     <<125184,125251>>, <<125259,125259>>, <<125264,125273>>,
     <<126065,126123>>, <<126125,126127>>, <<126129,126132>>,
     <<126209,126253>>, <<126255,126269>>, <<126464,126467>>,
     <<126469,126495>>, <<126497,126498>>, <<126500,126500>>,
     <<126503,126503>>, <<126505,126514>>, <<126516,126519>>,
     <<126521,126521>>, <<126523,126523>>, <<126530,126530>>,
     <<126535,126535>>, <<126537,126537>>, <<126539,126539>>,
     <<126541,126543>>, <<126545,126546>>, <<126548,126548>>,
     <<126551,126551>>, <<126553,126553>>, <<126555,126555>>,
     <<126557,126557>>, <<126559,126559>>, <<126561,126562>>,
     <<126564,126564>>, <<126567,126570>>, <<126572,126578>>,
     <<126580,126583>>, <<126585,126588>>, <<126590,126590>>,
     <<126592,126601>>, <<126603,126619>>, <<126625,126627>>,
     <<126629,126633>>, <<126635,126651>>, <<127232,127244>>,
     <<130032,130041>>, <<131072,173791>>, <<173824,177976>>,
     <<177984,178205>>, <<178208,183969>>, <<183984,191456>>,
     <<194560,195101>>, <<196608,201546>>}

\* \s of the re module, and the characters str.strip() / str.split() drop.
IsSpace(c) == c \in SpaceChars
\* \w of the re module: [a-zA-Z0-9_] and the alphanumeric characters beyond
\* ASCII.
IsWord(c) ==
    IF c < 128
    THEN \/ c \in 48..57           \* 0-9
         \/ c \in 65..90           \* A-Z
         \/ c \in 97..122          \* a-z
         \/ c = Underscore
    ELSE \E r \in WordRanges : r[1] <= c /\ c <= r[2]
\* [^{]
IsNotOpenBrace(c) == c # OpenBrace
\* [^"]
IsNotQuote(c) == c # DQuote

KwList == Str(<<"l","i","s","t">>)
KwKey  == Str(<<"k","e","y">>)

\* The literal lit stands in s at position p.
HasLit(s, p, lit) ==
    /\ p >= 1
    /\ p + Len(lit) - 1 <= Len(s)
    /\ SubSeq(s, p, p + Len(lit) - 1) = lit

\* A body class that lets the scan for 'key' cross an open-brace:
\* .*? in place of [^{]*?.
BodyCharAny(c) == TRUE

\* The class of [^{]*?, the text between the open-brace and 'key'.
BodyChar(c) == IsNotOpenBrace(c)

\* Membership of a character in a class of the patterns.
InClass(cls, c) ==
    CASE cls = "space"   -> IsSpace(c)
      [] cls = "nobrace" -> IsNotOpenBrace(c)
      [] cls = "noquote" -> IsNotQuote(c)
      [] cls = "body"    -> BodyChar(c)

\* The end (exclusive) of the longest run of characters of a class that
\* starts at p: what a greedy X* consumes from p.
RunEnd(s, p, cls) ==
    CHOOSE q \in p..(Len(s) + 1) :
        /\ \A r \in p..(q - 1) : InClass(cls, s[r])
        /\ (q <= Len(s) => ~InClass(cls, s[q]))

\* The end (exclusive) of the longest run of word characters that starts
\* at p: what the greedy \w+ consumes from p.
WordEnd(s, p) ==
    CHOOSE q \in p..(Len(s) + 1) :
        /\ \A r \in p..(q - 1) : IsWord(s[r])
        /\ (q <= Len(s) => ~IsWord(s[q]))

\* ------------------------------------------------------------------------
\* list_pattern = r'list\s+(\w+)\s*{[^{]*?key\s+"([^"]+)"'  with re.DOTALL
\* ------------------------------------------------------------------------
NoMatch == [found |-> FALSE]

\* key\s+"([^"]+)" at position e.  \s+ and [^"]+ are greedy and each is
\* followed by a character outside its class, so neither can give back a
\* character: the quote is the first character after the whitespace run
\* and the closing quote is the first quote after the opening one.
KeyClauseAt(s, e) ==
    IF ~HasLit(s, e, KwKey) THEN NoMatch
    ELSE LET w == e + 3
             o == RunEnd(s, w, "space")
         IN IF o = w \/ ~HasLit(s, o, <<DQuote>>) THEN NoMatch
            ELSE LET c == RunEnd(s, o + 1, "noquote")
                 IN IF c = o + 1 \/ c > Len(s) THEN NoMatch
                    ELSE [found |-> TRUE, key_pos |-> e,
                          clause |-> SubSeq(s, o + 1, c - 1), end |-> c + 1]

\* A gap that tolerates any text other than an open-brace between the
\* entity name and the open-brace: [^{]* in place of \s*.
AnyGapEnd(s, q) == RunEnd(s, q, "nobrace")

\* \s* after the entity name: the position at which '{' must stand.
GapEnd(s, q) == RunEnd(s, q, "space")

\* list\s+(\w+) at p: the entity name.  \s+ and \w+ are greedy runs of
\* disjoint classes, and what follows the name is no word character, so
\* neither can give back a character.
NameAt(s, p) ==
    IF ~HasLit(s, p, KwList) THEN NoMatch
    ELSE LET w  == p + 4
             n1 == RunEnd(s, w, "space")
             n2 == WordEnd(s, n1)
         IN IF n1 = w \/ n2 = n1 THEN NoMatch
            ELSE [found |-> TRUE, name_pos |-> n1, name_end |-> n2]

\* {[^{]*?key\s+"([^"]+)" with the open-brace expected at b, for the match
\* that starts at p with the entity name h.  [^{]*? is lazy: the key clause
\* is the first one reachable from the brace without crossing another
\* open-brace.
MatchFromBrace(s, p, h, b) ==
    IF ~HasLit(s, b, <<OpenBrace>>) THEN NoMatch
    ELSE LET lim   == RunEnd(s, b + 1, "body")
             cands == {e \in (b + 1)..lim : KeyClauseAt(s, e).found}
         IN IF cands = {} THEN NoMatch
            ELSE LET k == KeyClauseAt(s, Min(cands))
                 IN [found |-> TRUE, start |-> p,
                     name_pos |-> h.name_pos, name_end |-> h.name_end,
                     name |-> SubSeq(s, h.name_pos, h.name_end - 1),
                     brace |-> b, key_pos |-> k.key_pos,
                     clause |-> k.clause, end |-> k.end]

\* The match of list_pattern that starts at p, if there is one.
MatchAt(s, p) ==
    LET h == NameAt(s, p)
    IN IF ~h.found THEN NoMatch
       ELSE MatchFromBrace(s, p, h, GapEnd(s, h.name_end))

\* re.finditer: the leftmost match at or after pos; the next scan resumes
\* at its end (matches do not overlap; a match is never empty).
NextMatch(s, pos) ==
    LET starts == {p \in pos..Len(s) : MatchAt(s, p).found}
    IN IF starts = {} THEN NoMatch ELSE MatchAt(s, Min(starts))

\* ------------------------------------------------------------------------
\* The loop body, lines 62-70
\* ------------------------------------------------------------------------
\* str.strip()
Strip(s) ==
    LET keep == {i \in 1..Len(s) : ~IsSpace(s[i])}
    IN IF keep = {} THEN <<>>
       ELSE SubSeq(s, Min(keep), CHOOSE i \in keep : \A j \in keep : j <= i)

\* str.split() with no argument: the maximal runs of non-whitespace.
RECURSIVE SplitFrom(_, _)
SplitFrom(s, p) ==
    LET a == RunEnd(s, p, "space")
    IN IF a > Len(s) THEN <<>>
       ELSE LET z == CHOOSE q \in a..(Len(s) + 1) :
                        /\ \A r \in a..(q - 1) : ~IsSpace(s[r])
                        /\ (q <= Len(s) => IsSpace(s[q]))
            IN <<SubSeq(s, a, z - 1)>> \o SplitFrom(s, z)

Split(s) == SplitFrom(s, 1)

\* Lines 63-70: a str when there is exactly one token, the list otherwise.
KeyRep(clause) ==
    LET keys == Split(Strip(clause))
    IN IF Len(keys) = 1 THEN [kind |-> "str", value |-> keys[1]]
       ELSE [kind |-> "list", value |-> keys]

\* All the matches finditer yields on s from pos on, in order.
RECURSIVE MatchesFrom(_, _)
MatchesFrom(s, pos) ==
    LET m == NextMatch(s, pos)
    IN IF m.found THEN <<m>> \o MatchesFrom(s, m.end) ELSE <<>>

\* d[k] = v on a dict.
DictSet(d, k, v) == [n \in DOMAIN d \cup {k} |-> IF n = k THEN v ELSE d[n]]

EmptyDict == [n \in {} |-> 0]

\* Lines 61-70 over a sequence of matches.
RECURSIVE StoreAll(_, _)
StoreAll(d, ms) ==
    IF ms = <<>> THEN d
    ELSE StoreAll(DictSet(d, Head(ms).name, KeyRep(Head(ms).clause)), Tail(ms))

\* extract_keys_using_regex as a function of the member's text; when the
\* file cannot be opened the exception is caught (lines 74-75) and the
\* empty dict is returned.
extract_keys_using_regex(text, readable) ==
    IF readable THEN StoreAll(EmptyDict, MatchesFrom(text, 1)) ELSE EmptyDict

\* ------------------------------------------------------------------------
\* Input texts: up to MaxDecls declaration pieces, each the canonical
\* declaration  list A {key "k";}  with at most one part varied.
\* ------------------------------------------------------------------------
Quote == <<DQuote>>

DefaultPre  == <<>>
DefaultGap  == <<SP>>
DefaultBody == <<>>
DefaultKey  == KwKey \o <<SP>> \o Quote \o Str(<<"k">>) \o Quote

Prefixes == {DefaultPre,
             Str(<<"l","e","a","f","-">>),
             Str(<<"b","l","a","c","k">>)}
DefaultName == Str(<<"A">>)
NameBeyondAscii == Str(<<"c">>) \o <<EAcute, Alpha>>
EntityNames == {DefaultName, Str(<<"B","_","1">>), NameBeyondAscii}
Gaps == {DefaultGap, <<>>, Str(<<" ","x"," ">>), <<VT>>}
Bodies == {DefaultBody,
           Str(<<"c"," ","{">>),
           Str(<<"d",";","}"," ">>),
           KwList \o Str(<<" ","C"," ","{">>),
           KwKey \o <<SP>> \o Quote \o Str(<<"m">>) \o Quote
                 \o Str(<<";"," ">>)}
KeyParts == {DefaultKey,
             KwKey \o <<SP>> \o Quote \o Str(<<"k"," ","j">>) \o Quote,
             KwKey \o <<SP>> \o Quote \o <<SP>> \o Quote,
             KwKey \o <<LF>> \o Quote \o Str(<<" ","j","\t","k"," ">>)
                   \o Quote,
             KwKey \o <<VT>> \o Quote \o Str(<<"a">>) \o <<NBSP>>
                   \o Str(<<"b">>) \o Quote,
             KwKey \o <<SP>> \o Quote \o Quote,
             <<>>}

Dev(x, d) == IF x = d THEN 0 ELSE 1

PieceOpts ==
    {o \in [pre : Prefixes, name : EntityNames, gap : Gaps,
            body : Bodies, key : KeyParts] :
        Dev(o.pre, DefaultPre) + Dev(o.name, DefaultName)
          + Dev(o.gap, DefaultGap)
          + Dev(o.body, DefaultBody) + Dev(o.key, DefaultKey) <= 1}

Piece(o) ==
    o.pre \o KwList \o <<SP>> \o o.name \o o.gap \o <<OpenBrace>> \o o.body
          \o o.key \o Str(<<";","}">>)

Pieces == {Piece(o) : o \in PieceOpts}

RECURSIVE TextsOf(_)
TextsOf(n) ==
    IF n = 0 THEN {<<>>}
    ELSE LET shorter == TextsOf(n - 1)
         IN shorter \cup {t \o p : t \in shorter, p \in Pieces}

Texts == TextsOf(MaxDecls)

\* ------------------------------------------------------------------------
\* extract_keys_using_regex, one iteration of the loop per step
\* ------------------------------------------------------------------------
RunIdle ==
    /\ archive_ok = FALSE /\ namelist = <<>> /\ output_arg = FALSE
    /\ pc = "idle" /\ temp_dir = "none" /\ extracted = EmptyDict
    /\ outside = EmptyDict
    /\ file_i = 0 /\ yang_files = <<>> /\ parse_i = 0
    /\ all_tables_and_keys = EmptyDict /\ decl_log = <<>>
    /\ failure = "none" /\ exit_code = -1 /\ stdout = "none" /\ out_file = "none"

\* Lines 51-59: the text is read and the scan starts at its first character.
InitExt ==
    /\ content \in Texts
    /\ scan_pos = 1
    /\ tables_and_keys = EmptyDict
    /\ match_log = <<>>
    /\ ext_pc = "scan"
    /\ RunIdle

\* Lines 61-70 for the next match finditer yields.
MatchStep ==
    /\ ext_pc = "scan"
    /\ LET m == NextMatch(content, scan_pos)
       IN /\ m.found
          /\ tables_and_keys' = DictSet(tables_and_keys, m.name, KeyRep(m.clause))
          /\ match_log' = Append(match_log, m)
          /\ scan_pos' = m.end
    /\ UNCHANGED <<content, ext_pc, run_vars>>

\* The iterator is exhausted: lines 77-78.
ScanEnd ==
    /\ ext_pc = "scan"
    /\ ~NextMatch(content, scan_pos).found
    /\ ext_pc' = "done"
    /\ UNCHANGED <<content, scan_pos, tables_and_keys, match_log, run_vars>>

NextExt == MatchStep \/ ScanEnd

SpecExt == InitExt /\ [][NextExt]_vars

\* ------------------------------------------------------------------------
\* Properties of extract_keys_using_regex (checked under SpecExt)
\* ------------------------------------------------------------------------
Logged == {match_log[i] : i \in 1..Len(match_log)}
LastMatch == match_log[Len(match_log)]

\* C2 (as claimed): every captured key clause, trimmed and split on
\* whitespace, gives one or more tokens; the value stored for the entity is
\* the token itself when there is one and the ordered list of tokens when
\* there are several.
C2_KeyClauseTokens ==
    match_log # <<>> =>
        LET toks == Split(Strip(LastMatch.clause))
            v    == tables_and_keys[LastMatch.name]
        IN /\ Len(toks) >= 1
           /\ Len(toks) = 1 => v = [kind |-> "str", value |-> toks[1]]
           /\ Len(toks) > 1 => v = [kind |-> "list", value |-> toks]

\* The pattern as a language: p, n1, n2, b, e, o, c are the positions of
\* 'list', the entity name, its end, the open-brace, 'key', the opening
\* quote and the closing quote of one way to match the text at p, with only
\* whitespace allowed between the name and the open-brace.
Occurrence(s, p, n1, n2, b, e, o, c) ==
    /\ HasLit(s, p, KwList)
    /\ n1 > p + 4 /\ \A r \in (p + 4)..(n1 - 1) : IsSpace(s[r])
    /\ n2 > n1 /\ n2 <= Len(s) + 1 /\ \A r \in n1..(n2 - 1) : IsWord(s[r])
    /\ b >= n2 /\ \A r \in n2..(b - 1) : IsSpace(s[r])
    /\ HasLit(s, b, <<OpenBrace>>)
    /\ e > b /\ \A r \in (b + 1)..(e - 1) : s[r] # OpenBrace
    /\ HasLit(s, e, KwKey)
    /\ o > e + 3 /\ \A r \in (e + 3)..(o - 1) : IsSpace(s[r])
    /\ HasLit(s, o, Quote)
    /\ c > o + 1 /\ \A r \in (o + 1)..(c - 1) : s[r] # DQuote
    /\ HasLit(s, c, Quote)

Positions(s) == 1..(Len(s) + 1)

\* The closing part of an occurrence: 'key' at e, whitespace, and a quoted
\* string that is not empty.
KeyOccursAt(s, e) ==
    /\ HasLit(s, e, KwKey)
    /\ \E o \in (e + 4)..Len(s) :
          /\ \A r \in (e + 3)..(o - 1) : IsSpace(s[r])
          /\ HasLit(s, o, Quote)
          /\ \E c \in (o + 2)..Len(s) :
                /\ \A r \in (o + 1)..(c - 1) : s[r] # DQuote
                /\ HasLit(s, c, Quote)

\* Some way to match the pattern at p with 'key' at e: Occurrence holds of
\* some n1, n2, b, o, c.
OccursAtWithKey(s, p, e) ==
    /\ HasLit(s, p, KwList)
    /\ \E n1 \in (p + 5)..Len(s) :
          /\ \A r \in (p + 4)..(n1 - 1) : IsSpace(s[r])
          /\ \E n2 \in (n1 + 1)..Len(s) :
                /\ \A r \in n1..(n2 - 1) : IsWord(s[r])
                /\ \E b \in n2..(e - 1) :
                      /\ \A r \in n2..(b - 1) : IsSpace(s[r])
                      /\ HasLit(s, b, <<OpenBrace>>)
                      /\ \A r \in (b + 1)..(e - 1) : s[r] # OpenBrace
    /\ KeyOccursAt(s, e)

OccursAt(s, p) ==
    /\ HasLit(s, p, KwList)
    /\ \E e \in Positions(s) : HasLit(s, e, KwKey) /\ OccursAtWithKey(s, p, e)

\* The positions finditer tried and passed over, or has still to try.
Unmatched(s) ==
    {p \in 1..Len(s) : \A m \in Logged : p < m.start \/ p >= m.end}

\* C8 (amended): the matches the extractor finds are those of the scanning
\* rule  'list', whitespace, an identifier of word characters, optional
\* whitespace and nothing else up to the open-brace, characters other than
\* an open-brace up to the first 'key', whitespace and a double-quoted
\* string, applied left to right without overlap: every match found is such
\* an occurrence with the captured name and clause, with the first key
\* clause the rule can reach, and no occurrence starts at a position the
\* scan passed over.
C8_ScanningRuleWhitespaceGap ==
    ext_pc = "done" =>
        /\ \A m \in Logged :
              /\ \E o \in Positions(content) :
                    /\ Occurrence(content, m.start, m.name_pos, m.name_end,
                                  m.brace, m.key_pos, o, m.end - 1)
                    /\ m.clause = SubSeq(content, o + 1, m.end - 2)
              /\ m.name = SubSeq(content, m.name_pos, m.name_end - 1)
              /\ \A e \in (m.brace + 1)..(m.key_pos - 1) :
                    ~(HasLit(content, e, KwKey)
                      /\ OccursAtWithKey(content, m.start, e))
        /\ \A p \in Unmatched(content) : ~OccursAt(content, p)

\* The scanning rule in the specification's words: any characters other
\* than an open-brace are tolerated between the name and the open-brace.
SpecMatchAt(s, p) ==
    LET h == NameAt(s, p)
    IN IF ~h.found THEN NoMatch
       ELSE MatchFromBrace(s, p, h, AnyGapEnd(s, h.name_end))

\* C8 witness: a scan has ended with a match found, and with a 'list' whose
\* name is followed by other text before the open-brace passed over.
C8_Witness ==
    /\ ext_pc = "done"
    /\ match_log # <<>>
    /\ \E p \in Unmatched(content) :
          /\ HasLit(content, p, KwList)
          /\ SpecMatchAt(content, p).found
          /\ ~MatchAt(content, p).found

RECURSIVE SpecPairsFrom(_, _)
SpecPairsFrom(s, pos) ==
    LET starts == {p \in pos..Len(s) : SpecMatchAt(s, p).found}
    IN IF starts = {} THEN {}
       ELSE LET m == SpecMatchAt(s, Min(starts))
            IN {<<m.name, m.clause>>} \cup SpecPairsFrom(s, m.end)

\* C8 (as claimed): the (entity name, raw key clause) pairs the extractor
\* finds are those of the specification's scanning rule, which tolerates
\* non-whitespace text between the entity name and its open-brace.
C8_ScanningRuleAnyGap ==
    ext_pc = "done" =>
        {<<m.name, m.clause>> : m \in Logged} = SpecPairsFrom(content, 1)

\* A list header at p, 'list', whitespace, a name, optional whitespace and
\* an open-brace: the position of its open-brace, 0 when there is none.
HeaderBrace(s, p) ==
    LET h == NameAt(s, p)
    IN IF ~h.found THEN 0
       ELSE LET b == RunEnd(s, h.name_end, "space")
            IN IF HasLit(s, b, <<OpenBrace>>) THEN b ELSE 0

ListStarts(s) == {p \in 1..Len(s) : HeaderBrace(s, p) > 0}
KeyStarts(s) == {e \in 1..Len(s) : KeyClauseAt(s, e).found}

\* The list at p opens a nested block (an open-brace inside its still open
\* body) before the first key clause after its open-brace, which is at e.
NestedBeforeKey(s, p, e) ==
    LET b == HeaderBrace(s, p)
    IN /\ b > 0
       /\ e > b
       /\ \A r \in (b + 1)..(e - 1) : r \notin KeyStarts(s)
       /\ \E r \in (b + 1)..(e - 1) :
             /\ s[r] = OpenBrace
             /\ \A q \in (b + 1)..(r - 1) : s[q] # CloseBrace

\* C9 (amended): the extractor never attributes to an entity a key clause
\* that lies after a nested open-brace: in every match the open-brace is
\* the first one after the entity name and no other open-brace stands
\* between it and the matched 'key'; a list that opens a nested block
\* before its first key clause gets no entry from that declaration.
C9_NoKeyAcrossNestedBrace ==
    /\ \A m \in Logged :
          \A r \in m.name_end..(m.key_pos - 1) :
              content[r] = OpenBrace => r = m.brace
    /\ ext_pc = "done" =>
          \A p \in ListStarts(content) : \A e \in KeyStarts(content) :
              NestedBeforeKey(content, p, e) =>
                  ~\E m \in Logged : m.start = p

\* C9 witness: a scan has ended on a text in which a list opens a nested
\* block before a key clause, and another declaration was matched.
C9_Witness ==
    /\ ext_pc = "done"
    /\ match_log # <<>>
    /\ \E p \in ListStarts(content) : \E e \in KeyStarts(content) :
          NestedBeforeKey(content, p, e)

\* The matches the extractor finds on the text s.
MatchesOf(s) ==
    LET ms == MatchesFrom(s, 1) IN {ms[i] : i \in 1..Len(ms)}

\* C9 (as claimed): there is an input text, the one being scanned or any
\* other, in which the body of a list holds a nested open-brace (of a
\* sub-block or of an inner list) before a key clause, and the extractor
\* maps the name of that outer list to that key clause: one of its matches
\* starts at the outer list and takes a key clause that lies after an
\* open-brace inside the body.
C9_SomeKeyAttributedToOuter ==
    \E t \in Texts \cup {content} : \E m \in MatchesOf(t) :
        \E r \in (m.brace + 1)..(m.key_pos - 1) : t[r] = OpenBrace

\* C10 (as claimed): every entity name in the result follows a standalone
\* keyword 'list', one that is not the tail of a longer word or of a
\* hyphenated keyword such as leaf-list.
C10_StandaloneListKeyword ==
    \A m \in Logged :
        m.start > 1 =>
            ~(IsWord(content[m.start - 1]) \/ content[m.start - 1] = Hyphen)

\* ------------------------------------------------------------------------
\* extract_yang_files: which member names are selected
\* ------------------------------------------------------------------------
YangExt == Str(<<".","y","a","n","g">>)

EndsWith(s, suffix) == HasLit(s, Len(s) - Len(suffix) + 1, suffix)

\* pattern.match(file_path) for r'.*-.*\.yang$': '.' matches any character
\* but a newline, and '$' matches at the end of the string and also just
\* before a newline that ends the string.
PatternMatches(n) ==
    \E i \in 1..Len(n) :
        /\ n[i] = Hyphen
        /\ \A r \in 1..(i - 1) : n[r] # LF
        /\ \E j \in (i + 1)..Len(n) :
              /\ \A r \in (i + 1)..(j - 1) : n[r] # LF
              /\ HasLit(n, j, YangExt)
              /\ \/ j + 5 = Len(n) + 1
                 \/ j + 5 = Len(n) /\ n[Len(n)] = LF

\* os.path.basename: what follows the last '/'.
Basename(n) ==
    LET slashes == {i \in 1..Len(n) : n[i] = Slash}
    IN IF slashes = {} THEN n
       ELSE SubSeq(n, (CHOOSE i \in slashes : \A j \in slashes : j <= i) + 1,
                   Len(n))

\* Lines 34-37.
Selected(n) ==
    /\ PatternMatches(n)
    /\ ~EndsWith(n, <<Slash>>)
    /\ \E i \in 1..Len(Basename(n)) : Basename(n)[i] = Hyphen

\* ------------------------------------------------------------------------
\* Paths: where zip_ref.extract writes a member (line 39), the path line 40
\* records for it, and the file open() finds at that path (line 54)
\* ------------------------------------------------------------------------
\* The components of a path: str.split('/').
RECURSIVE SplitPath(_)
SplitPath(n) ==
    LET slashes == {i \in 1..Len(n) : n[i] = Slash}
    IN IF slashes = {} THEN <<n>>
       ELSE <<SubSeq(n, 1, Min(slashes) - 1)>>
                \o SplitPath(SubSeq(n, Min(slashes) + 1, Len(n)))

\* '/'.join(components)
RECURSIVE JoinPath(_)
JoinPath(cs) ==
    IF cs = <<>> THEN <<>>
    ELSE IF Len(cs) = 1 THEN cs[1]
    ELSE cs[1] \o <<Slash>> \o JoinPath(Tail(cs))

\* The proper prefixes of a sequence of components: the directories above
\* the file or directory it names.
ProperPrefixes(cs) == {SubSeq(cs, 1, k) : k \in 0..(Len(cs) - 1)}

\* zip_ref.extract: the member is written under temp_dir at its name with
\* the empty, '.' and '..' components dropped, so never outside temp_dir.
ArcName(n) ==
    JoinPath(SelectSeq(SplitPath(n),
                       LAMBDA c : c \notin {<<>>, <<Dot>>, <<Dot, Dot>>}))

\* zip_ref.extract can write at the path: the path names something, no
\* directory stands there, and no file stands where it needs a directory.
CanExtract(target, files) ==
    LET t  == SplitPath(target)
        fs == {SplitPath(k) : k \in DOMAIN files}
    IN /\ target # <<>>
       /\ \A f \in fs : t \notin ProperPrefixes(f)
       /\ \A d \in ProperPrefixes(t) : d \notin fs

\* The directory tempfile.TemporaryDirectory() created (line 87).
TempDir == Str(<<"/","t","/","s">>)

\* Line 40, os.path.join(temp_dir, file_path): an absolute member name
\* replaces temp_dir.
JoinTemp(n) ==
    IF n # <<>> /\ n[1] = Slash THEN n ELSE TempDir \o <<Slash>> \o n

\* The files of the file system by absolute path: those extracted under
\* temp_dir and those outside it.
AllFiles(files, others) ==
    LET inside == {TempDir \o <<Slash>> \o k : k \in DOMAIN files}
    IN [p \in inside \cup DOMAIN others |->
           IF p \in inside THEN files[SubSeq(p, Len(TempDir) + 2, Len(p))]
           ELSE others[p]]

\* The directories: temp_dir, what is above it, and what is above a file.
AllDirs(files, others) ==
    LET t == Tail(SplitPath(TempDir))
    IN {t} \cup ProperPrefixes(t)
           \cup UNION {ProperPrefixes(Tail(SplitPath(p))) :
                          p \in DOMAIN AllFiles(files, others)}

\* No file or directory is named by the path.
NoPath == <<<<Slash>>>>

\* Path resolution by the operating system, from the directory at: an empty
\* component and '.' stay, '..' goes to the parent (the root is its own
\* parent), and a name that is not the last component must be a directory.
RECURSIVE Walk(_, _, _)
Walk(cs, at, dirs) ==
    IF cs = <<>> THEN at
    ELSE IF Head(cs) \in {<<>>, <<Dot>>} THEN Walk(Tail(cs), at, dirs)
    ELSE IF Head(cs) = <<Dot, Dot>>
         THEN Walk(Tail(cs),
                   IF at = <<>> THEN at ELSE SubSeq(at, 1, Len(at) - 1), dirs)
    ELSE LET to == Append(at, Head(cs))
         IN IF Tail(cs) = <<>> THEN to
            ELSE IF to \in dirs THEN Walk(Tail(cs), to, dirs)
            ELSE NoPath

\* open(..., 'r') with universal newlines: '\r\n' and '\r' are read as '\n'.
RECURSIVE ReadText(_)
ReadText(t) ==
    IF t = <<>> THEN t
    ELSE IF Head(t) # CR THEN <<Head(t)>> \o ReadText(Tail(t))
    ELSE IF Len(t) >= 2 /\ t[2] = LF THEN ReadText(Tail(t))
    ELSE <<LF>> \o ReadText(Tail(t))

\* Lines 54-55 on the path line 40 recorded for the member n: the file the
\* path resolves to, which need not be the one extracted for n, and its
\* text; found is FALSE when the path names no file.
OpenPath(n, files, others) ==
    LET all == AllFiles(files, others)
        at  == Walk(SplitPath(JoinTemp(n)), <<>>, AllDirs(files, others))
        p   == <<Slash>> \o JoinPath(at)
    IN IF at # NoPath /\ p \in DOMAIN all
       THEN [found |-> TRUE, path |-> p, text |-> ReadText(all[p])]
       ELSE [found |-> FALSE, path |-> <<>>, text |-> <<>>]

\* zip_ref.extract(file_path, temp_dir): the file written holds the content
\* of the archive's last member of that name (ZipFile.getinfo), and
\* replaces a file already extracted there.
MemberText(members, n) ==
    LET at == {i \in 1..Len(members) : members[i].name = n}
    IN members[CHOOSE i \in at : \A j \in at : j <= i].text

\* Line 97: the members the zero-match diagnostic may sample.
Sampled(members) ==
    {i \in 1..Len(members) :
        EndsWith(members[i].name, YangExt)
        /\ ~EndsWith(members[i].name, <<Slash>>)}

\* ------------------------------------------------------------------------
\* The merge of line 110
\* ------------------------------------------------------------------------
\* A merge that keeps the value an entity already has.
DictKeepOld(a, b) ==
    [n \in DOMAIN a \cup DOMAIN b |-> IF n \in DOMAIN a THEN a[n] ELSE b[n]]

\* a.update(b)
DictUpdate(a, b) ==
    [n \in DOMAIN a \cup DOMAIN b |-> IF n \in DOMAIN b THEN b[n] ELSE a[n]]

\* The declarations of one member's text in text order, for the history.
DeclsOf(text) ==
    LET ms == MatchesFrom(text, 1)
    IN [i \in 1..Len(ms) |->
           [name |-> ms[i].name, rep |-> KeyRep(ms[i].clause)]]

\* ------------------------------------------------------------------------
\* Inputs of a run
\* ------------------------------------------------------------------------
NameSelected == Str(<<"a","-","x">>) \o YangExt
NameSecond   == Str(<<"d","/","b","-","y">>) \o YangExt
NameVersion  == Str(<<"1",".","0">>) \o YangExt
NameOther    == Str(<<"r",".","t","x","t">>)
NameDot      == <<Dot, Slash>> \o NameSelected
NameUp       == Str(<<".",".","/">>) \o NameSelected
RunNames == {NameSelected, NameSecond, NameVersion, NameOther, NameDot,
             NameUp}

Decl(name, key) ==
    Piece([pre |-> DefaultPre, name |-> name, gap |-> DefaultGap,
           body |-> DefaultBody, key |-> key])

KeyTwo == KwKey \o <<SP>> \o Quote \o Str(<<"k"," ","j">>) \o Quote

TextOne  == Decl(DefaultName, DefaultKey)
TextTwo  == Decl(DefaultName, KeyTwo)
TextBoth == Decl(Str(<<"B","_","1">>), DefaultKey)
                \o Decl(DefaultName, KeyTwo) \o Decl(DefaultName, DefaultKey)
RunTexts == {TextTwo, TextBoth}

\* A file that stands beside temp_dir, where the path recorded for NameUp
\* leads.
BesidePath == Str(<<"/","t","/">>) \o NameSelected
TextBeside == Decl(Str(<<"B","_","1">>), KeyTwo)
OutsideFiles == {EmptyDict, [p \in {BesidePath} |-> TextBeside]}

RECURSIVE SeqsUpTo(_, _)
SeqsUpTo(S, n) ==
    IF n = 0 THEN {<<>>}
    ELSE LET shorter == SeqsUpTo(S, n - 1)
         IN shorter \cup {Append(q, x) : q \in shorter, x \in S}

\* Member names that vary each part of <dir>/<stem><ext>.
NameDirs  == {<<>>, Str(<<"d","/">>), Str(<<"a","-","b","/">>),
              Str(<<"v","\n">>)}
NameStems == {Str(<<"1",".","0">>), Str(<<"a","-","x">>), <<Hyphen>>, <<>>}
NameExts  == {YangExt,
              Str(<<".","Y","A","N","G">>),
              Str(<<".","y","a","n","g","\n">>),
              Str(<<".","y","a","n","g","/">>),
              Str(<<"y","a","n","g">>),
              Str(<<".","t","x","t">>)}
VariedNames == {d \o t \o e : d \in NameDirs, t \in NameStems, e \in NameExts}

ExtIdle ==
    /\ content = <<>> /\ scan_pos = 0 /\ tables_and_keys = EmptyDict
    /\ match_log = <<>> /\ ext_pc = "idle"

RunStart ==
    /\ pc = "start" /\ temp_dir = "none" /\ extracted = EmptyDict
    /\ file_i = 0 /\ yang_files = <<>> /\ parse_i = 0
    /\ all_tables_and_keys = EmptyDict /\ decl_log = <<>>
    /\ failure = "none" /\ exit_code = -1
    /\ stdout = "none" /\ out_file = "none"

Init ==
    /\ archive_ok \in BOOLEAN
    /\ output_arg \in BOOLEAN
    /\ namelist \in SeqsUpTo([name : RunNames, text : RunTexts], MaxMembers)
    /\ outside \in OutsideFiles
    /\ archive_ok = FALSE => namelist = <<>> /\ outside = EmptyDict
    /\ RunStart
    /\ ExtIdle

InitSel ==
    /\ archive_ok = TRUE
    /\ output_arg = FALSE
    /\ namelist \in SeqsUpTo([name : VariedNames, text : {TextOne}], MaxListed)
    /\ outside = EmptyDict
    /\ RunStart
    /\ ExtIdle

\* ------------------------------------------------------------------------
\* The run: main (lines 129-145), extract_primary_keys_from_zip (85-114)
\* and the loop of extract_yang_files (26-44)
\* ------------------------------------------------------------------------
\* Line 148, exit(main()): the exit status of the process is the value main
\* returned, unless a standard stream cannot be flushed when the interpreter
\* shuts down (the log lines of stderr, the text of stdout), which makes it
\* 120 whatever main returned.
ExitStatus(returned, flushed) == IF flushed THEN returned ELSE 120

\* An exception leaves the with block of line 87 without the directory
\* being removed.
AbortLeaking(step) ==
    /\ failure' = step
    /\ \E flushed \in BOOLEAN : exit_code' = ExitStatus(1, flushed)
    /\ pc' = "exit"
    /\ UNCHANGED <<temp_dir, extracted>>

\* An exception propagates out of extract_primary_keys_from_zip: the with
\* block of line 87 removes the directory and what is under it, and main
\* logs the error and returns 1 (lines 141-143, 148).
Abort(step) ==
    /\ failure' = step
    /\ temp_dir' = "removed"
    /\ extracted' = EmptyDict
    /\ \E flushed \in BOOLEAN : exit_code' = ExitStatus(1, flushed)
    /\ pc' = "exit"

\* Lines 131, 85, 87: tempfile.TemporaryDirectory() raises when no
\* directory can be created; no directory exists then, the exception is
\* caught at line 141 and main returns 1 (line 148 for the exit status).
EnterRun ==
    /\ pc = "start"
    /\ all_tables_and_keys' = EmptyDict
    /\ \E made \in BOOLEAN :
          IF made
          THEN /\ temp_dir' = "exists"
               /\ pc' = "open"
               /\ UNCHANGED <<failure, exit_code>>
          ELSE /\ failure' = "tempdir"
               /\ \E flushed \in BOOLEAN :
                     exit_code' = ExitStatus(1, flushed)
               /\ pc' = "exit"
               /\ UNCHANGED temp_dir
    /\ UNCHANGED <<ext_vars, archive_ok, namelist, output_arg, outside,
                   extracted, file_i, yang_files, parse_i, decl_log, stdout,
                   out_file>>

\* An archive that cannot be opened is taken for an empty one.
OpenArchiveLenient ==
    /\ pc = "open"
    /\ pc' = "select"
    /\ file_i' = 1
    /\ UNCHANGED <<ext_vars, archive_ok, namelist, output_arg, outside,
                   temp_dir, extracted, yang_files, parse_i,
                   all_tables_and_keys, decl_log, failure, exit_code, stdout,
                   out_file>>

\* Lines 26-28: zipfile.ZipFile(zip_path) raises when the archive is
\* missing, unreadable or not a zip archive.
OpenArchive ==
    /\ pc = "open"
    /\ IF archive_ok
       THEN /\ pc' = "select"
            /\ file_i' = 1
            /\ UNCHANGED <<temp_dir, extracted, failure, exit_code>>
       ELSE /\ Abort("open")
            /\ UNCHANGED file_i
    /\ UNCHANGED <<ext_vars, archive_ok, namelist, output_arg, outside,
                   yang_files, parse_i, all_tables_and_keys, decl_log, stdout,
                   out_file>>

\* Lines 33-41 for one member; zip_ref.extract may raise (a damaged or
\* encrypted member, or a path it cannot write), and nothing in
\* extract_yang_files catches it.  The file is written at ArcName(n) and
\* the path recorded is os.path.join(temp_dir, n): yang_files holds n.
SelectStep ==
    /\ pc = "select"
    /\ file_i <= Len(namelist)
    /\ LET n == namelist[file_i].name
       IN IF Selected(n)
          THEN \E extract_ok \in BOOLEAN :
                 IF extract_ok /\ CanExtract(ArcName(n), extracted)
                 THEN /\ extracted' =
                            DictSet(extracted, ArcName(n),
                                    MemberText(namelist, n))
                      /\ yang_files' = Append(yang_files, n)
                      /\ file_i' = file_i + 1
                      /\ UNCHANGED <<pc, temp_dir, failure, exit_code>>
                 ELSE /\ Abort("extract")
                      /\ UNCHANGED <<yang_files, file_i>>
          ELSE /\ file_i' = file_i + 1
               /\ UNCHANGED <<pc, temp_dir, extracted, yang_files, failure,
                              exit_code>>
    /\ UNCHANGED <<ext_vars, archive_ok, namelist, output_arg, outside,
                   parse_i, all_tables_and_keys, decl_log, stdout, out_file>>

\* Lines 43-44 and 89-91.
SelectDone ==
    /\ pc = "select"
    /\ file_i > Len(namelist)
    /\ pc' = IF yang_files = <<>> THEN "sample" ELSE "parse"
    /\ parse_i' = 1
    /\ UNCHANGED <<ext_vars, archive_ok, namelist, output_arg, outside,
                   temp_dir, extracted, file_i, yang_files,
                   all_tables_and_keys, decl_log, failure, exit_code, stdout,
                   out_file>>

\* Lines 92-102: the archive is opened again, and the first member whose
\* name ends in '.yang' is opened and its first bytes are read;
\* zipfile.ZipFile and zip_ref.open may raise, and nothing in
\* extract_primary_keys_from_zip catches it.
Sample ==
    /\ pc = "sample"
    /\ \E reopen_ok \in BOOLEAN, read_ok \in BOOLEAN :
          IF reopen_ok /\ (Sampled(namelist) = {} \/ read_ok)
          THEN /\ pc' = "parse"
               /\ UNCHANGED <<temp_dir, extracted, failure, exit_code>>
          ELSE Abort("sample")
    /\ UNCHANGED <<ext_vars, archive_ok, namelist, output_arg, outside, file_i,
                   yang_files, parse_i, all_tables_and_keys, decl_log, stdout,
                   out_file>>

\* Lines 105-112 for one recorded path; a path that names no file, or a
\* file that cannot be read, makes extract_keys_using_regex return the
\* empty dict.
ParseStep ==
    /\ pc = "parse"
    /\ parse_i <= Len(yang_files)
    /\ \E read_ok \in BOOLEAN :
          LET f        == OpenPath(yang_files[parse_i], extracted, outside)
              readable == read_ok /\ f.found
              text     == f.text
          IN /\ all_tables_and_keys' =
                    DictUpdate(all_tables_and_keys,
                               extract_keys_using_regex(text, readable))
             /\ decl_log' =
                    decl_log \o (IF readable THEN DeclsOf(text) ELSE <<>>)
    /\ parse_i' = parse_i + 1
    /\ UNCHANGED <<ext_vars, archive_ok, namelist, output_arg, outside, pc,
                   temp_dir, extracted, file_i, yang_files, failure, exit_code,
                   stdout, out_file>>

\* The loop ends; the with block of line 87 removes the directory; line 114.
ReturnMapping ==
    /\ pc = "parse"
    /\ parse_i > Len(yang_files)
    /\ temp_dir' = "removed"
    /\ extracted' = EmptyDict
    /\ pc' = "output"
    /\ UNCHANGED <<ext_vars, archive_ok, namelist, output_arg, outside, file_i,
                   yang_files, parse_i, all_tables_and_keys, decl_log, failure,
                   exit_code, stdout, out_file>>

\* Lines 134-139, 141-145 and 148.  With args.output not empty the mapping
\* is written to that file: open() may raise, and the file is not created;
\* the write may raise, and the file is left created or truncated with a
\* part of the JSON text.  Otherwise the mapping is printed: with the
\* standard output closed sys.stdout is None and print() writes nothing and
\* raises nothing; print() may raise; or the text stays in the buffer of
\* sys.stdout and the flush at the exit of the interpreter fails; a part
\* of the text may have been written in the last two cases.  An exception
\* is caught at line 141 and main returns 1, else main returns 0.  failure
\* keeps what failed first: "flush" is a failing flush at the exit after
\* main returned 0.
Output ==
    /\ pc = "output"
    /\ IF output_arg
       THEN \E res \in {"written", "unopened", "cut"}, flushed \in BOOLEAN :
              /\ out_file' =
                    CASE res = "written" -> [written |-> all_tables_and_keys]
                      [] res = "unopened" -> out_file
                      [] res = "cut" -> "partial"
              /\ failure' =
                    CASE res # "written" -> "output"
                      [] res = "written" /\ ~flushed -> "flush"
                      [] OTHER -> failure
              /\ exit_code' =
                    ExitStatus(IF res = "written" THEN 0 ELSE 1, flushed)
              /\ UNCHANGED stdout
       ELSE \E res \in {"printed", "closed", "raised", "unflushed"},
               part \in BOOLEAN, flushed \in BOOLEAN :
              /\ stdout' =
                    CASE res = "printed" -> [written |-> all_tables_and_keys]
                      [] res = "closed" -> stdout
                      [] OTHER -> IF part THEN "partial" ELSE stdout
              /\ failure' =
                    CASE res = "printed" /\ flushed -> failure
                      [] res = "printed" /\ ~flushed -> "flush"
                      [] res = "closed" -> "closed"
                      [] res = "raised" -> "print"
                      [] res = "unflushed" -> "flush"
              /\ exit_code' =
                    CASE res = "raised" -> ExitStatus(1, flushed)
                      [] res = "unflushed" -> ExitStatus(0, FALSE)
                      [] OTHER -> ExitStatus(0, flushed)
              /\ UNCHANGED out_file
    /\ pc' = "exit"
    /\ UNCHANGED <<ext_vars, archive_ok, namelist, output_arg, outside,
                   temp_dir, extracted, file_i, yang_files, parse_i,
                   all_tables_and_keys, decl_log>>

Next ==
    \/ EnterRun
    \/ OpenArchive
    \/ SelectStep
    \/ SelectDone
    \/ Sample
    \/ ParseStep
    \/ ReturnMapping
    \/ Output

Spec == Init /\ [][Next]_vars

SpecSel == InitSel /\ [][Next]_vars

\* ------------------------------------------------------------------------
\* Properties of the selection (checked under SpecSel)
\* ------------------------------------------------------------------------
InSeq(x, q) == \E i \in 1..Len(q) : q[i] = x

\* The rule as the specification words it: the name ends in '.yang', its
\* last path segment has a '-' before that extension, and it does not end
\* in '/'.
QualifiesByRule(n) ==
    /\ EndsWith(n, YangExt)
    /\ ~EndsWith(n, <<Slash>>)
    /\ \E i \in 1..(Len(Basename(n)) - Len(YangExt)) : Basename(n)[i] = Hyphen

\* C1 (as claimed): a member the selection loop has passed is selected if
\* and only if its name ends exactly in '.yang', its base filename has a
\* '-' before the extension and it is not a directory entry.
C1_SelectionRule ==
    failure = "none" =>
        \A i \in 1..Len(namelist) :
            i < file_i =>
                (InSeq(namelist[i].name, yang_files)
                    <=> QualifiesByRule(namelist[i].name))

\* ------------------------------------------------------------------------
\* Properties of the run (checked under Spec)
\* ------------------------------------------------------------------------
\* The latest declaration of entity n in the history.
LatestDecl(n) ==
    decl_log[CHOOSE i \in 1..Len(decl_log) :
                /\ decl_log[i].name = n
                /\ \A j \in (i + 1)..Len(decl_log) : decl_log[j].name # n]

DeclaredNames == {decl_log[i].name : i \in 1..Len(decl_log)}

\* C3: after every merge step the accumulator holds, for exactly the entity
\* names declared so far, the key representation of the latest declaration
\* of that name (members in listing order, declarations in text order): an
\* earlier value is replaced whole; and the merge raises no error.
C3_LastDeclarationWins ==
    /\ DOMAIN all_tables_and_keys = DeclaredNames
    /\ \A n \in DeclaredNames : all_tables_and_keys[n] = LatestDecl(n).rep
    /\ pc \in {"parse", "output"} => failure = "none" /\ exit_code = -1

\* The file the i-th recorded path leads to.
FileAt(i) == OpenPath(yang_files[i], extracted, outside)

\* C3 witness: two different members have been merged, and the second
\* declared an entity the accumulator already held with another key
\* representation.
C3_Witness ==
    /\ pc = "parse"
    /\ parse_i = 3
    /\ FileAt(1).found /\ FileAt(2).found
    /\ FileAt(1).path # FileAt(2).path
    /\ decl_log = DeclsOf(FileAt(1).text) \o DeclsOf(FileAt(2).text)
    /\ \E i \in 1..Len(decl_log) :
          /\ decl_log[i].name = decl_log[Len(decl_log)].name
          /\ decl_log[i].rep.kind = "list"
          /\ decl_log[Len(decl_log)].rep.kind = "str"
          /\ FileAt(1).text = TextTwo

Emitted == stdout # "none" \/ out_file # "none"

\* C4 (as claimed): when the content of one qualifying member cannot be
\* extracted, the run goes on: it ends with exit status 0 and with the
\* mapping written.
C4_MemberFailureIsolated ==
    (pc = "exit" /\ failure = "extract") => (exit_code = 0 /\ Emitted)

NoneSelected == \A i \in 1..Len(namelist) : ~Selected(namelist[i].name)

\* C5 (as claimed): a run on an archive that opens and has no qualifying
\* member, in which nothing but the sampling of a non-matching member may
\* have failed, ends with exit status 0 and the empty mapping written: the
\* sampling does not affect the result, whether it succeeds or fails.
C5_ZeroMatchesSucceed ==
    (pc = "exit" /\ archive_ok /\ NoneSelected
        /\ failure \in {"none", "sample"}) =>
        /\ exit_code = 0
        /\ (IF output_arg THEN out_file ELSE stdout) = [written |-> EmptyDict]

\* C6: when the archive cannot be opened nothing is ever printed and the
\* output destination is never written, and the run ends with a non-zero
\* exit status.
C6_NoOutputWhenArchiveUnreadable ==
    ~archive_ok =>
        /\ stdout = "none"
        /\ out_file = "none"
        /\ pc \notin {"select", "sample", "parse", "output"}
        /\ pc = "exit" => exit_code # 0

\* C6 witness: a run with --output given has ended on an archive that
\* cannot be opened.
C6_Witness ==
    ~archive_ok /\ output_arg /\ pc = "exit" /\ failure = "open"

\* C7: a scratch directory that was acquired exists for as long as
\* extract_primary_keys_from_zip runs, and once that operation has ended,
\* by a return or by an exception, the directory and the files extracted
\* under it are gone.
C7_ScratchRemovedOnEveryExit ==
    /\ pc \in {"open", "select", "sample", "parse"} => temp_dir = "exists"
    /\ pc \in {"output", "exit"} =>
          /\ extracted = EmptyDict
          /\ temp_dir = IF failure = "tempdir" THEN "none" ELSE "removed"

\* C7 witness: the run was aborted by a failing extraction after another
\* member had been extracted under the scratch directory.
C7_Witness ==
    pc = "exit" /\ failure = "extract" /\ yang_files # <<>>

=============================================================================
